---- MODULE Spec2Model ----
(***************************************************************************)
(* A state-machine model of the authentication service:                    *)
(*   backend/config/security.py  SecurityManager (tokens, revocation,      *)
(*                               sliding-window rate limiter)              *)
(*   backend/main.py             the HTTP endpoints and their own token    *)
(*                               issue / verify functions                  *)
(*                                                                         *)
(* Time is a discrete clock `now` (one tick = one unit of time.time() and  *)
(* of the token timestamps).  Several calls may read the same clock value. *)
(***************************************************************************)
EXTENDS Integers, Sequences, FiniteSets, TLC

\* ------------------------------------------------------------------ bounds
MaxTime  == 3      \* the clock runs 0..MaxTime
MaxLimit == 2      \* limit is drawn from 1..MaxLimit
MaxCalls == 3      \* check_rate_limit calls made in one behaviour
MaxTokens == 1     \* tokens issued in one behaviour

Identifiers == {"ip1", "ip2"}
HoursChoices == {0, 2}   \* expires_hours / JWT_EXPIRES_IN_HOURS
Windows     == {1, 2}

\* The value of a name that is bound to nothing (Python's None, a Redis key
\* without expiry).
None == -1

VARIABLES
    now,               \* time.time()
    redis_client,      \* SecurityManager.redis_client is not None
    cache_reachable,   \* the cache server answers a ping
    limit,             \* the limit the callers pass to check_rate_limit
    window_seconds,    \* the window the callers pass to check_rate_limit
    rate_limit_cache,  \* SecurityManager.rate_limit_cache: identifier -> list
    zset,              \* cache: sorted set "rate_limit:<identifier>" (scores)
    zexpire,           \* cache: expiry time of that key, or None
    log,               \* per identifier, the calls made: [time, ok, err]
    lastCall,          \* the latest check_rate_limit call, with the state it saw
    token_blacklist,   \* SecurityManager.token_blacklist: set of tokens
    blacklist_keys,    \* cache: the keys "blacklist:<token>", each with its expiry
    issued,            \* the tokens issued so far, each with the user record given
    revoked,           \* the issued tokens blacklist_token was called with (no cache error)
    dead,              \* the tokens a SecurityManager verify failed as expired/revoked
    client,            \* main.client is not None
    users_collection,  \* main.users_collection is not None
    JWT_EXPIRES_IN_HOURS, \* main.JWT_EXPIRES_IN_HOURS (environment)
    jwt_secret_set,    \* the environment holds JWT_SECRET (main.JWT_SECRET is
                       \* not None)
    users,             \* the document store: _id -> credential record
    lastOp,            \* the latest token / endpoint operation and its outcome
    handlers           \* request handlers inside check_rate_limit: where each
                       \* one stands and its local variables

rateVars == <<limit, window_seconds, rate_limit_cache, zset, zexpire, log,
              lastCall>>

authVars == <<token_blacklist, blacklist_keys, issued, revoked, dead, client,
              users_collection, JWT_EXPIRES_IN_HOURS, jwt_secret_set, users, lastOp>>

vars == <<now, redis_client, cache_reachable, rateVars, authVars, handlers>>

\* ------------------------------------------------------------- helpers
Min(S) == CHOOSE x \in S : \A y \in S : x <= y

Range(s) == {s[k] : k \in 1..Len(s)}

\* ------------------------------------------------------ backend selection
\* A mutant of use_redis: the cache is used whenever it answers.
use_redis_when_reachable == cache_reachable

\* `if self.redis_client:` -- the test every operation selects its backend by.
use_redis == redis_client

\* ------------------------------------------------- rate limiter, in memory
\* A mutant of InWindow: the comparison is never made, nothing is pruned.
InWindowNever(current_time, timestamp, w) == TRUE

\* `current_time - timestamp < window_seconds`
InWindow(current_time, timestamp, w) == current_time - timestamp < w

RECURSIVE Prune(_, _, _)
\* [timestamp for timestamp in list if current_time - timestamp < window_seconds]
Prune(list, current_time, w) ==
    IF list = <<>> THEN <<>>
    ELSE LET rest == Prune(Tail(list), current_time, w)
         IN  IF InWindow(current_time, Head(list), w)
             THEN <<Head(list)>> \o rest ELSE rest

\* _check_rate_limit_memory on the list stored for the identifier (<<>> when
\* the identifier is new): the result and the list stored afterwards.
check_rate_limit_memory(list, lim, w, current_time) ==
    LET pruned == Prune(list, current_time, w)
    IN  IF Len(pruned) >= lim
        THEN [ok |-> FALSE, list |-> pruned]
        ELSE [ok |-> TRUE,  list |-> Append(pruned, current_time)]

\* ---------------------------------------------- rate limiter, cache backend
\* ZREMRANGEBYSCORE key lo hi: the members with lo <= score <= hi go.
zremrangebyscore(S, lo, hi) == {s \in S : ~(lo <= s /\ s <= hi)}

\* ZADD key {str(t): t}: the member is the text of the score, so a second add
\* of the same time replaces the member and the set does not grow.
zadd(S, t) == S \cup {t}

\* A mutant of fail_open: the limiter fails closed.
fail_closed(e) == FALSE

\* The except clause of _check_rate_limit_redis, entered when cache command
\* `e` raised: `return True`.
fail_open(e) == TRUE

\* _check_rate_limit_redis on the sorted set S with key expiry X.  `e` is the
\* cache command that raises: 0 none, 1 zremrangebyscore, 2 zcard, 3 zadd,
\* 4 expire.  The commands before it have taken effect; the except clause
\* gives the result.  A sorted set that becomes empty is deleted with its
\* expiry.  `raised` tells whether command e was reached (a rejected call
\* returns before zadd and expire).
check_rate_limit_redis(S, X, lim, w, current_time, e) ==
    LET trimmed == zremrangebyscore(S, 0, current_time - w)
        X1      == IF trimmed = {} THEN None ELSE X
        added   == zadd(trimmed, current_time)
    IN  IF e = 1 THEN [ok |-> fail_open(e), set |-> S, exp |-> X, raised |-> TRUE]
        ELSE IF e = 2
             THEN [ok |-> fail_open(e), set |-> trimmed, exp |-> X1, raised |-> TRUE]
        ELSE IF Cardinality(trimmed) >= lim
             THEN [ok |-> FALSE, set |-> trimmed, exp |-> X1, raised |-> FALSE]
        ELSE IF e = 3
             THEN [ok |-> fail_open(e), set |-> trimmed, exp |-> X1, raised |-> TRUE]
        ELSE IF e = 4
             THEN [ok |-> fail_open(e), set |-> added, exp |-> X1, raised |-> TRUE]
        ELSE [ok |-> TRUE, set |-> added, exp |-> current_time + w, raised |-> FALSE]

NoCall == [id |-> "", time |-> None, ok |-> FALSE, e |-> 0, before |-> {}, list |-> <<>>]

\* The list _check_rate_limit_memory finds for an identifier.
Stored(id) == IF id \in DOMAIN rate_limit_cache THEN rate_limit_cache[id] ELSE <<>>

\* check_rate_limit(identifier, limit, window_seconds) at time `now`.
check_rate_limit(id, e) ==
    /\ Len(log[id]) + Len(log[CHOOSE o \in Identifiers : o # id]) < MaxCalls
    /\ e # 0 => redis_client
    /\ IF use_redis
       THEN LET r == check_rate_limit_redis(zset[id], zexpire[id], limit,
                                            window_seconds, now, e)
            IN  /\ e # 0 => r.raised
                /\ zset' = [zset EXCEPT ![id] = r.set]
                /\ zexpire' = [zexpire EXCEPT ![id] = r.exp]
                /\ log' = [log EXCEPT ![id] =
                              Append(@, [time |-> now, ok |-> r.ok, err |-> e # 0])]
                /\ lastCall' = [id |-> id, time |-> now, ok |-> r.ok, e |-> e,
                                before |-> zset[id], list |-> <<>>]
                /\ UNCHANGED rate_limit_cache
       ELSE LET r == check_rate_limit_memory(Stored(id), limit, window_seconds, now)
            IN  /\ rate_limit_cache' =
                       [k \in DOMAIN rate_limit_cache \cup {id} |->
                           IF k = id THEN r.list ELSE rate_limit_cache[k]]
                /\ log' = [log EXCEPT ![id] =
                              Append(@, [time |-> now, ok |-> r.ok, err |-> FALSE])]
                /\ lastCall' = [id |-> id, time |-> now, ok |-> r.ok, e |-> 0,
                                before |-> Range(Stored(id)), list |-> Stored(id)]
                /\ UNCHANGED <<zset, zexpire>>
    /\ UNCHANGED <<now, redis_client, cache_reachable, limit, window_seconds,
                   authVars, handlers>>

\* The same check_rate_limit call made on a SecurityManager that uses the
\* cache and on one that uses the in-process fallback, no cache command
\* raising: zset / zexpire are the state of the first, rate_limit_cache of
\* the second.
check_rate_limit_both(id) ==
    /\ Len(log[id]) + Len(log[CHOOSE o \in Identifiers : o # id]) < MaxCalls
    /\ LET r == check_rate_limit_redis(zset[id], zexpire[id], limit,
                                       window_seconds, now, 0)
           m == check_rate_limit_memory(Stored(id), limit, window_seconds, now)
       IN  /\ zset' = [zset EXCEPT ![id] = r.set]
           /\ zexpire' = [zexpire EXCEPT ![id] = r.exp]
           /\ rate_limit_cache' =
                  [k \in DOMAIN rate_limit_cache \cup {id} |->
                      IF k = id THEN m.list ELSE rate_limit_cache[k]]
           /\ log' = [log EXCEPT ![id] =
                         Append(@, [time |-> now, ok |-> r.ok, err |-> FALSE])]
           /\ lastCall' = [id |-> id, time |-> now, ok |-> r.ok, e |-> 0,
                           before |-> zset[id], list |-> Stored(id),
                           memory_ok |-> m.ok]
    /\ UNCHANGED <<now, redis_client, cache_reachable, limit, window_seconds,
                   authVars, handlers>>

\* ------------------------------------- rate limiter, concurrent handlers
\* Request handlers that run check_rate_limit at the same time (worker
\* threads of one process), one cache command or one statement on the shared
\* dict at a time.  pc names the statement the handler executes next.
Handlers == {"h1", "h2"}

Idle == [pc |-> "idle", id |-> "", current_time |-> None, list |-> <<>>]

handlerFrame == UNCHANGED <<now, redis_client, cache_reachable, limit,
                            window_seconds, lastCall, authVars>>

\* The handler returns `ok` from check_rate_limit.
Return(h, ok) ==
    /\ log' = [log EXCEPT ![handlers[h].id] =
                  Append(@, [time |-> handlers[h].current_time, ok |-> ok,
                             err |-> FALSE])]
    /\ handlers' = [handlers EXCEPT ![h].pc = "done"]

\* check_rate_limit is entered: current_time = time.time(), then the backend
\* is selected.
Begin(h, id) ==
    /\ handlers[h].pc \in {"idle", "done"}
    /\ Len(log[id]) + Len(log[CHOOSE o \in Identifiers : o # id])
           + Cardinality({g \in Handlers : handlers[g].pc \notin {"idle", "done"}})
       < MaxCalls
    /\ handlers' = [handlers EXCEPT ![h] =
                       [pc |-> IF use_redis THEN "zremrangebyscore" ELSE "filter",
                        id |-> id, current_time |-> now, list |-> <<>>]]
    /\ UNCHANGED <<rate_limit_cache, zset, zexpire, log>>
    /\ handlerFrame

\* self.redis_client.zremrangebyscore(key, 0, current_time - window_seconds)
Zremrangebyscore(h) ==
    /\ handlers[h].pc = "zremrangebyscore"
    /\ LET id == handlers[h].id
           trimmed == zremrangebyscore(zset[id], 0,
                                       handlers[h].current_time - window_seconds)
       IN  /\ zset' = [zset EXCEPT ![id] = trimmed]
           /\ zexpire' = [zexpire EXCEPT ![id] = IF trimmed = {} THEN None ELSE @]
    /\ handlers' = [handlers EXCEPT ![h].pc = "zcard"]
    /\ UNCHANGED <<rate_limit_cache, log>>
    /\ handlerFrame

\* current_requests = self.redis_client.zcard(key), and the comparison with
\* limit that follows it.
Zcard(h) ==
    /\ handlers[h].pc = "zcard"
    /\ IF Cardinality(zset[handlers[h].id]) >= limit
       THEN Return(h, FALSE)
       ELSE /\ handlers' = [handlers EXCEPT ![h].pc = "zadd"]
            /\ UNCHANGED log
    /\ UNCHANGED <<rate_limit_cache, zset, zexpire>>
    /\ handlerFrame

\* self.redis_client.zadd(key, {str(current_time): current_time})
Zadd(h) ==
    /\ handlers[h].pc = "zadd"
    /\ zset' = [zset EXCEPT ![handlers[h].id] = zadd(@, handlers[h].current_time)]
    /\ handlers' = [handlers EXCEPT ![h].pc = "expire"]
    /\ UNCHANGED <<rate_limit_cache, zexpire, log>>
    /\ handlerFrame

\* self.redis_client.expire(key, window_seconds); return True
Expire(h) ==
    /\ handlers[h].pc = "expire"
    /\ zexpire' = [zexpire EXCEPT ![handlers[h].id] =
                      IF zset[handlers[h].id] = {} THEN None
                      ELSE now + window_seconds]
    /\ Return(h, TRUE)
    /\ UNCHANGED <<rate_limit_cache, zset>>
    /\ handlerFrame

\* The dict entry is created if missing, and the list comprehension runs
\* over the stored list: the timestamps younger than the window.
Filter(h) ==
    /\ handlers[h].pc = "filter"
    /\ LET id == handlers[h].id
       IN  /\ rate_limit_cache' =
                  [k \in DOMAIN rate_limit_cache \cup {id} |->
                      IF k = id THEN Stored(id) ELSE rate_limit_cache[k]]
           /\ handlers' = [handlers EXCEPT
                  ![h].pc = "store",
                  ![h].list = Prune(Stored(id), handlers[h].current_time,
                                    window_seconds)]
    /\ UNCHANGED <<zset, zexpire, log>>
    /\ handlerFrame

\* self.rate_limit_cache[identifier] = <the list the comprehension built>
Store(h) ==
    /\ handlers[h].pc = "store"
    /\ rate_limit_cache' = [rate_limit_cache EXCEPT ![handlers[h].id] =
                               handlers[h].list]
    /\ handlers' = [handlers EXCEPT ![h].pc = "check", ![h].list = <<>>]
    /\ UNCHANGED <<zset, zexpire, log>>
    /\ handlerFrame

\* if len(self.rate_limit_cache[identifier]) >= limit: return False
Check(h) ==
    /\ handlers[h].pc = "check"
    /\ IF Len(Stored(handlers[h].id)) >= limit
       THEN Return(h, FALSE)
       ELSE /\ handlers' = [handlers EXCEPT ![h].pc = "append"]
            /\ UNCHANGED log
    /\ UNCHANGED <<rate_limit_cache, zset, zexpire>>
    /\ handlerFrame

\* self.rate_limit_cache[identifier].append(current_time); return True
AppendTime(h) ==
    /\ handlers[h].pc = "append"
    /\ rate_limit_cache' = [rate_limit_cache EXCEPT ![handlers[h].id] =
                               Append(@, handlers[h].current_time)]
    /\ Return(h, TRUE)
    /\ UNCHANGED <<zset, zexpire>>
    /\ handlerFrame

\* ------------------------------------------------------------ tokens
JWT_SECRET == "JWT_SECRET"
ISSUER     == "supply-chain-ai"
AUDIENCE   == "supply-chain-ai-frontend"
Absent     == ""          \* a claim the payload does not carry / a None argument

\* Python values whose type matters in a comparison: str(x) of an ObjectId is
\* a str and equals no ObjectId.
Str(v) == [type |-> "str", val |-> v.val]

NoClaims == [user_id |-> [type |-> "str", val |-> ""], email |-> "", role |-> "",
             iat |-> None, exp |-> None, jti |-> 0, iss |-> Absent, aud |-> Absent]

\* jwt.encode(payload, key): the token carries the payload and is bound to
\* the key that signed it.
jwt_encode(payload, key) == [payload |-> payload, key |-> key]

\* A string that is no token, and a token signed with another key.
Malformed == [payload |-> NoClaims, key |-> "not a token"]
Forged    == [payload |-> [NoClaims EXCEPT !.email = "a@x", !.role = "admin",
                                           !.iat = 0, !.exp = MaxTime + 1],
              key |-> "another key"]

\* A mutant of Expired: the expiry is never looked at.
ExpiredNever(exp, t) == FALSE

\* jwt's expiry check at time t: the signature has expired when exp <= t.
Expired(exp, t) == exp <= t

\* A mutant of AudienceOk: a decode that names no audience does not look at
\* the token's audience claim.
AudienceUnchecked(aud, audience) == audience = Absent \/ aud = audience

\* jwt's audience check.  A decode that names no audience rejects a token
\* that carries one (InvalidAudienceError); a decode that names one rejects a
\* token that carries none (MissingRequiredClaimError) or another one.
AudienceOk(aud, audience) ==
    IF audience = Absent THEN aud = Absent ELSE aud = audience

\* jwt's issuer check: made only when the decode names an issuer.
IssuerOk(iss, issuer) == issuer = Absent \/ iss = issuer

\* jwt.decode(token, key, algorithms, audience=, issuer=, options=) at time t:
\* the signature first, then exp, then iss, then aud.
jwt_decode(token, key, t, verify_exp, audience, issuer) ==
    IF token.key # key THEN [out |-> "invalid", payload |-> NoClaims]
    ELSE IF verify_exp /\ Expired(token.payload.exp, t)
         THEN [out |-> "expired", payload |-> NoClaims]
    ELSE IF ~IssuerOk(token.payload.iss, issuer) \/ ~AudienceOk(token.payload.aud, audience)
         THEN [out |-> "invalid", payload |-> NoClaims]
    ELSE [out |-> "claims", payload |-> token.payload]

\* A mutant of create_jwt_token: the role claim is not taken from the user.
create_jwt_token_role(user_data, expires_hours, t, nonce) ==
    jwt_encode([user_id |-> Str(user_data._id), email |-> user_data.email,
                role |-> "user", iat |-> t, exp |-> t + expires_hours,
                jti |-> nonce, iss |-> ISSUER, aud |-> AUDIENCE], JWT_SECRET)

\* SecurityManager.create_jwt_token(user_data, expires_hours) at time t;
\* nonce is the value generate_secure_token() returns.
create_jwt_token(user_data, expires_hours, t, nonce) ==
    jwt_encode([user_id |-> Str(user_data._id), email |-> user_data.email,
                role |-> user_data.role, iat |-> t, exp |-> t + expires_hours,
                jti |-> nonce, iss |-> ISSUER, aud |-> AUDIENCE], JWT_SECRET)

\* main.create_jwt_token(user_data) at time t.
main_create_jwt_token(user_data, t) ==
    jwt_encode([user_id |-> Str(user_data._id), email |-> user_data.email,
                role |-> user_data.role, iat |-> t, exp |-> t + JWT_EXPIRES_IN_HOURS,
                jti |-> 0, iss |-> Absent, aud |-> Absent], JWT_SECRET)

\* The cache holds the key "blacklist:<token>".
KeyExists(token) == \E k \in blacklist_keys : k.token = token

\* A mutant of lookup_failed: a lookup that fails answers "revoked".
lookup_failed_closed(token) == TRUE

\* The except clause of is_token_blacklisted: `return False`.
lookup_failed(token) == FALSE

\* SecurityManager.is_token_blacklisted(token); e: the cache GET raises, and
\* the except clause answers.
is_token_blacklisted(token, e) ==
    IF use_redis THEN (IF e THEN lookup_failed(token) ELSE KeyExists(token))
    ELSE token \in token_blacklist

\* SecurityManager.verify_jwt_token(token) at time t.  The clause
\* `except jwt.JWTError` is read as the catch-all for invalid tokens that it
\* is written to be; where the name does not resolve the call still raises
\* and returns no claims.
verify_jwt_token(token, t, e) ==
    IF is_token_blacklisted(token, e)
    THEN [out |-> "revoked", payload |-> NoClaims]
    ELSE jwt_decode(token, JWT_SECRET, t, TRUE, AUDIENCE, ISSUER)

\* main.verify_jwt_token(token) at time t.  With no JWT_SECRET in the
\* environment jwt.decode is given the key None and raises TypeError, which
\* neither except clause names.
main_verify_jwt_token(token, t) ==
    IF ~jwt_secret_set THEN [out |-> "error", payload |-> NoClaims]
    ELSE jwt_decode(token, JWT_SECRET, t, TRUE, Absent, Absent)

\* A mutant of Ttl: the entry lives one time unit, whatever the expiry.
TtlOne(exp, t) == IF exp - t > 0 THEN 1 ELSE 0

\* max(0, exp_timestamp - current_timestamp)
Ttl(exp, t) == IF exp - t > 0 THEN exp - t ELSE 0

\* A mutant of blacklist_except: what is raised inside leaves the call.
blacklist_except_reraise(exc) == IF exc = "" THEN "returned" ELSE "raised"

\* How blacklist_token ends when `exc` was raised inside its try ("" for
\* nothing): `except Exception` logs it and the call returns.
blacklist_except(exc) == "returned"

\* SecurityManager.blacklist_token(token) at time t: what the two stores hold
\* afterwards, and how the call ends.  Whatever is raised inside (the decode
\* rejecting the token, the cache raising, SETEX refusing a time-to-live of 0)
\* goes to the except clause.
blacklist_token(token, t, e) ==
    LET d   == jwt_decode(token, JWT_SECRET, t, FALSE, Absent, Absent)
        ttl == Ttl(d.payload.exp, t)
        same(exc) == [mem |-> token_blacklist, keys |-> blacklist_keys,
                      out |-> blacklist_except(exc)]
    IN  IF d.out # "claims" THEN same("InvalidTokenError")
        ELSE IF use_redis
             THEN IF e THEN same("ConnectionError")
                  ELSE IF ttl = 0 THEN same("ResponseError")
                  ELSE [mem |-> token_blacklist,
                        keys |-> {k \in blacklist_keys : k.token # token}
                                 \cup {[token |-> token, expire |-> t + ttl]},
                        out |-> blacklist_except("")]
        ELSE [mem |-> token_blacklist \cup {token}, keys |-> blacklist_keys,
              out |-> blacklist_except("")]

\* ------------------------------------------------------- document store
NoUser == [_id |-> [type |-> "str", val |-> ""], email |-> "", role |-> "",
           is_active |-> FALSE, password_hash |-> [salt |-> 0, pw |-> ""],
           last_login |-> None, updated_at |-> None]

UserKeys == {"u1", "u2"}
Emails == {"a@x", "b@x", "c@x"}
Passwords == {"right", "wrong"}

\* bcrypt.hashpw(password, salt): the salt is part of the hash.
hashpw(password, salt) == [salt |-> salt, pw |-> password]

\* bcrypt.checkpw(password, hashed), for a hashed that hashpw produced.
checkpw(password, hashed) == hashpw(password, hashed.salt) = hashed

\* A text that is no bcrypt hash: it carries no salt that bcrypt accepts.
MalformedHash == [salt |-> 0, pw |-> "not a hash"]

\* The hashes bcrypt.checkpw accepts as its second argument; for any other
\* text it raises ValueError("Invalid salt").
ValidSalt(hashed) == hashed.salt > 0

\* SecurityManager.verify_password(password, hashed): the value returned, or
\* the exception that leaves the call (the method has no try).
verify_password(password, hashed) ==
    IF ~ValidSalt(hashed) THEN "ValueError"
    ELSE IF checkpw(password, hashed) THEN "True" ELSE "False"

\* users_collection.find_one({"email": email, "is_active": True}): a
\* document that matches, or NoUser.
find_one_by_email(email) ==
    IF \E k \in UserKeys : users[k].email = email /\ users[k].is_active
    THEN users[CHOOSE k \in UserKeys : users[k].email = email /\ users[k].is_active]
    ELSE NoUser

\* users_collection.find_one({"_id": user_id, "is_active": True})
find_one_by_id(user_id) ==
    IF \E k \in UserKeys : users[k]._id = user_id /\ users[k].is_active
    THEN users[CHOOSE k \in UserKeys : users[k]._id = user_id /\ users[k].is_active]
    ELSE NoUser

NoOp == [op |-> "", tok |-> Malformed, out |-> "", payload |-> NoClaims,
         time |-> None, err |-> FALSE, calls |-> <<>>, status |-> 0,
         success |-> FALSE, token |-> Malformed, message |-> "",
         user |-> Absent, email |-> "", password |-> "", fail |-> "",
         hashed |-> [salt |-> 0, pw |-> ""]]

\* A mutant of login_rejected: the message tells which check failed.
login_rejected_telling(reason) ==
    [success |-> FALSE,
     message |-> IF reason = "not found" THEN "Invalid email" ELSE "Invalid password",
     user |-> Absent, token |-> Malformed]

\* The LoginResponse that login returns when the record is not found and when
\* the password does not match: LoginResponse(success=False,
\* message="Invalid email or password"), user and token left None.
login_rejected(reason) ==
    [success |-> FALSE, message |-> "Invalid email or password",
     user |-> Absent, token |-> Malformed]

\* The tokens a caller can present: the issued ones and one that another key
\* signed.
Presentable == {i.tok : i \in issued} \cup {Forged}

\* ------------------------------------------------------------- actions
authFrame == UNCHANGED <<now, redis_client, cache_reachable, limit, window_seconds,
                         handlers, jwt_secret_set,
                         rate_limit_cache, zset, zexpire, log, lastCall>>

\* security_manager.create_jwt_token(user_data, expires_hours)
Issue(k, h) ==
    /\ Cardinality(issued) < MaxTokens
    /\ LET t == create_jwt_token(users[k], h, now, Cardinality(issued) + 1)
       IN  /\ issued' = issued \cup {[tok |-> t, user |-> k, by |-> "security"]}
           /\ lastOp' = [NoOp EXCEPT !.op = "create_jwt_token", !.tok = t,
                                     !.time = now]
    /\ authFrame
    /\ UNCHANGED <<token_blacklist, blacklist_keys, revoked, dead, client,
                   users_collection, JWT_EXPIRES_IN_HOURS, users>>

\* main.create_jwt_token(user_data)
MainIssue(k) ==
    /\ LET t == main_create_jwt_token(users[k], now)
           n == issued \cup {[tok |-> t, user |-> k, by |-> "main"]}
       IN  /\ Cardinality(n) <= MaxTokens
           /\ issued' = n
           /\ lastOp' = [NoOp EXCEPT !.op = "main.create_jwt_token", !.tok = t,
                                     !.time = now]
    /\ authFrame
    /\ UNCHANGED <<token_blacklist, blacklist_keys, revoked, dead, client,
                   users_collection, JWT_EXPIRES_IN_HOURS, users>>

\* security_manager.verify_jwt_token(token)
Verify(tok, e) ==
    /\ e => redis_client
    /\ LET r == verify_jwt_token(tok, now, e)
       IN  /\ lastOp' = [NoOp EXCEPT !.op = "verify_jwt_token", !.tok = tok,
                                     !.out = r.out, !.payload = r.payload,
                                     !.time = now, !.err = e]
           /\ dead' = IF r.out \in {"expired", "revoked"} THEN dead \cup {tok}
                      ELSE dead
    /\ authFrame
    /\ UNCHANGED <<token_blacklist, blacklist_keys, issued, revoked, client,
                   users_collection, JWT_EXPIRES_IN_HOURS, users>>

\* security_manager.is_token_blacklisted(token)
IsTokenBlacklisted(tok, e) ==
    /\ e => redis_client
    /\ lastOp' = [NoOp EXCEPT !.op = "is_token_blacklisted", !.tok = tok,
                              !.out = IF is_token_blacklisted(tok, e)
                                      THEN "blacklisted" ELSE "not blacklisted",
                              !.time = now, !.err = e]
    /\ authFrame
    /\ UNCHANGED <<token_blacklist, blacklist_keys, issued, revoked, dead, client,
                   users_collection, JWT_EXPIRES_IN_HOURS, users>>

\* security_manager.verify_password(password, hashed)
VerifyPassword(password, hashed) ==
    /\ lastOp' = [NoOp EXCEPT !.op = "verify_password", !.password = password,
                              !.hashed = hashed,
                              !.out = verify_password(password, hashed),
                              !.time = now]
    /\ authFrame
    /\ UNCHANGED <<token_blacklist, blacklist_keys, issued, revoked, dead, client,
                   users_collection, JWT_EXPIRES_IN_HOURS, users>>

\* main.verify_jwt_token(token)
MainVerify(tok) ==
    /\ LET r == main_verify_jwt_token(tok, now)
       IN  lastOp' = [NoOp EXCEPT !.op = "main.verify_jwt_token", !.tok = tok,
                                  !.out = r.out, !.payload = r.payload,
                                  !.time = now]
    /\ authFrame
    /\ UNCHANGED <<token_blacklist, blacklist_keys, issued, revoked, dead, client,
                   users_collection, JWT_EXPIRES_IN_HOURS, users>>

\* security_manager.blacklist_token(token)
Blacklist(tok, e) ==
    /\ e => redis_client
    /\ LET r == blacklist_token(tok, now, e)
       IN  /\ token_blacklist' = r.mem
           /\ blacklist_keys' = r.keys
           /\ lastOp' = [NoOp EXCEPT !.op = "blacklist_token", !.tok = tok,
                                     !.out = r.out, !.time = now, !.err = e]
    /\ revoked' = IF e THEN revoked
                  ELSE revoked \cup ({tok} \cap {i.tok : i \in issued})
    /\ authFrame
    /\ UNCHANGED <<issued, dead, client, users_collection, JWT_EXPIRES_IN_HOURS,
                   users>>

\* main.startup_event: connect_to_mongodb().  The client is bound before the
\* ping; the collection only after it.
Startup(ping_ok) ==
    /\ ~client
    /\ client' = TRUE
    /\ users_collection' = ping_ok
    /\ lastOp' = [NoOp EXCEPT !.op = "connect_to_mongodb", !.success = ping_ok,
                              !.time = now]
    /\ authFrame
    /\ UNCHANGED <<token_blacklist, blacklist_keys, issued, revoked, dead,
                   JWT_EXPIRES_IN_HOURS, users>>

\* POST /api/auth/login.  `fail` names the document-store call that raises
\* ("" for none).  With no JWT_SECRET in the environment create_jwt_token
\* raises (jwt.encode refuses the key None); the handler calls it after
\* update_one.  Every exception raised inside the handler, the handler's own
\* HTTPException included, leaves as HTTP 500.
Login(email, password, fail) ==
    LET user == find_one_by_email(email)
        resp(calls, status, success, tok) ==
            [NoOp EXCEPT !.op = "login", !.calls = calls, !.status = status,
                         !.success = success, !.token = tok, !.time = now,
                         !.email = email, !.password = password, !.fail = fail,
                         !.message = IF status = 500 THEN "Authentication failed"
                                     ELSE "Login successful",
                         !.user = IF success THEN user.email ELSE Absent]
        rejected(calls, reason) ==
            [resp(calls, 200, FALSE, Malformed) EXCEPT
                 !.success = login_rejected(reason).success,
                 !.message = login_rejected(reason).message,
                 !.user = login_rejected(reason).user,
                 !.token = login_rejected(reason).token]
    IN
    /\ client
    /\ IF ~users_collection
       THEN /\ fail = ""
            /\ lastOp' = resp(<<>>, 500, FALSE, Malformed)
            /\ UNCHANGED <<users, issued>>
       ELSE IF fail = "find_one"
       THEN /\ lastOp' = resp(<<"find_one">>, 500, FALSE, Malformed)
            /\ UNCHANGED <<users, issued>>
       ELSE IF user = NoUser
       THEN /\ fail = ""
            /\ lastOp' = rejected(<<"find_one">>, "not found")
            /\ UNCHANGED <<users, issued>>
       ELSE IF ~checkpw(password, user.password_hash)
       THEN /\ fail = ""
            /\ lastOp' = rejected(<<"find_one", "checkpw">>, "wrong password")
            /\ UNCHANGED <<users, issued>>
       ELSE IF fail = "update_one"
       THEN /\ lastOp' = resp(<<"find_one", "checkpw", "update_one">>, 500, FALSE,
                              Malformed)
            /\ UNCHANGED <<users, issued>>
       ELSE IF ~jwt_secret_set
       THEN LET k == CHOOSE k \in UserKeys : users[k] = user
            IN  /\ fail = ""
                /\ users' = [users EXCEPT ![k].last_login = now,
                                          ![k].updated_at = now]
                /\ lastOp' = resp(<<"find_one", "checkpw", "update_one",
                                    "create_jwt_token">>, 500, FALSE, Malformed)
                /\ UNCHANGED issued
       ELSE LET k == CHOOSE k \in UserKeys : users[k] = user
                t == main_create_jwt_token(user, now)
            IN  /\ Cardinality(issued \cup {[tok |-> t, user |-> k, by |-> "main"]})
                       <= MaxTokens
                /\ users' = [users EXCEPT ![k].last_login = now,
                                          ![k].updated_at = now]
                /\ issued' = issued \cup {[tok |-> t, user |-> k, by |-> "main"]}
                /\ lastOp' = resp(<<"find_one", "checkpw", "update_one",
                                    "create_jwt_token">>, 200, TRUE, t)
    /\ authFrame
    /\ UNCHANGED <<token_blacklist, blacklist_keys, revoked, dead, client,
                   users_collection, JWT_EXPIRES_IN_HOURS>>

\* GET /api/auth/verify-token with a bearer token: get_current_user, then the
\* handler.
VerifyToken(tok) ==
    /\ client
    /\ LET r == main_verify_jwt_token(tok, now)
       IN  lastOp' = [NoOp EXCEPT !.op = "verify-token", !.tok = tok,
                                  !.out = r.out, !.payload = r.payload,
                                  !.status = IF r.out = "claims" THEN 200
                                             ELSE IF r.out = "error" THEN 500
                                             ELSE 401,
                                  !.success = r.out = "claims", !.time = now]
    /\ authFrame
    /\ UNCHANGED <<token_blacklist, blacklist_keys, issued, revoked, dead, client,
                   users_collection, JWT_EXPIRES_IN_HOURS, users>>

\* GET /health, served once the startup event has run.  The handler reports
\* `client is not None`; lastOp.success carries that database_connected flag.
HealthCheck ==
    /\ client
    /\ lastOp' = [NoOp EXCEPT !.op = "health", !.status = 200,
                              !.success = client, !.time = now]
    /\ authFrame
    /\ UNCHANGED <<token_blacklist, blacklist_keys, issued, revoked, dead, client,
                   users_collection, JWT_EXPIRES_IN_HOURS, users>>

\* GET /api/auth/refresh-token with a bearer token.  The 401 the handler
\* raises for a missing user is raised inside its own try and leaves as 500,
\* as does the AttributeError of an unset users_collection.
RefreshToken(tok) ==
    LET r == main_verify_jwt_token(tok, now)
        user == find_one_by_id(r.payload.user_id)
        resp(calls, status, success, t) ==
            [NoOp EXCEPT !.op = "refresh-token", !.tok = tok, !.out = r.out,
                         !.payload = r.payload, !.calls = calls,
                         !.status = status, !.success = success, !.token = t,
                         !.time = now]
    IN
    /\ client
    /\ IF r.out # "claims"
       THEN /\ lastOp' = resp(<<>>, IF r.out = "error" THEN 500 ELSE 401, FALSE,
                              Malformed)
            /\ UNCHANGED issued
       ELSE IF ~users_collection
       THEN /\ lastOp' = resp(<<>>, 500, FALSE, Malformed)
            /\ UNCHANGED issued
       ELSE IF user = NoUser
       THEN /\ lastOp' = resp(<<"find_one">>, 500, FALSE, Malformed)
            /\ UNCHANGED issued
       ELSE LET k == CHOOSE k \in UserKeys : users[k] = user
                t == main_create_jwt_token(user, now)
            IN  /\ Cardinality(issued \cup {[tok |-> t, user |-> k, by |-> "main"]})
                       <= MaxTokens
                /\ issued' = issued \cup {[tok |-> t, user |-> k, by |-> "main"]}
                /\ lastOp' = resp(<<"find_one">>, 200, TRUE, t)
    /\ authFrame
    /\ UNCHANGED <<token_blacklist, blacklist_keys, revoked, dead, client,
                   users_collection, JWT_EXPIRES_IN_HOURS, users>>

\* The document store's administrator sets a record's active flag to false
\* (the flag the handlers' find_one filters on).
Deactivate(k) ==
    /\ client
    /\ users[k].is_active
    /\ users' = [users EXCEPT ![k].is_active = FALSE]
    /\ lastOp' = NoOp
    /\ authFrame
    /\ UNCHANGED <<token_blacklist, blacklist_keys, issued, revoked, dead, client,
                   users_collection, JWT_EXPIRES_IN_HOURS>>

\* The cache server goes down or comes (back) up.
CacheTurns ==
    /\ cache_reachable' = ~cache_reachable
    /\ lastCall' = NoCall
    /\ lastOp' = NoOp
    /\ UNCHANGED <<now, redis_client, limit, window_seconds, rate_limit_cache,
                   zset, zexpire, log, token_blacklist, blacklist_keys, issued,
                   revoked, dead, client, users_collection,
                   JWT_EXPIRES_IN_HOURS, jwt_secret_set, users, handlers>>

\* The clock advances; the cache drops the keys whose expiry has come.
Tick ==
    /\ now < MaxTime
    /\ now' = now + 1
    /\ zset' = [i \in Identifiers |->
                  IF zexpire[i] # None /\ zexpire[i] <= now + 1 THEN {} ELSE zset[i]]
    /\ zexpire' = [i \in Identifiers |->
                  IF zexpire[i] # None /\ zexpire[i] <= now + 1 THEN None ELSE zexpire[i]]
    /\ blacklist_keys' = {k \in blacklist_keys : k.expire > now + 1}
    /\ lastCall' = NoCall
    /\ lastOp' = NoOp
    /\ UNCHANGED <<redis_client, cache_reachable, limit, window_seconds,
                   rate_limit_cache, log, token_blacklist, issued, revoked, dead, client,
                   users_collection, JWT_EXPIRES_IN_HOURS, jwt_secret_set, users,
                   handlers>>

\* --------------------------------------------------------- specifications

\* SecurityManager() and the import of main: nothing recorded, nothing
\* connected.  redis_client is set by whether the ping in __init__ passed.
Constructed ==
    /\ now = 0
    /\ redis_client \in BOOLEAN
    /\ cache_reachable = redis_client
    /\ rate_limit_cache = <<>>
    /\ zset = [i \in Identifiers |-> {}]
    /\ zexpire = [i \in Identifiers |-> None]
    /\ token_blacklist = {}
    /\ blacklist_keys = {}
    /\ client = FALSE
    /\ users_collection = FALSE
    /\ log = [i \in Identifiers |-> <<>>]
    /\ lastCall = NoCall
    /\ issued = {}
    /\ revoked = {}
    /\ dead = {}
    /\ lastOp = NoOp
    /\ handlers = [h \in Handlers |-> Idle]
    /\ users = [k \in UserKeys |->
                  IF k = "u1"
                  THEN [NoUser EXCEPT !._id = [type |-> "ObjectId", val |-> "1"],
                                      !.email = "a@x", !.role = "admin",
                                      !.is_active = TRUE,
                                      !.password_hash = hashpw("right", 1)]
                  ELSE [NoUser EXCEPT !._id = [type |-> "str", val |-> "2"],
                                      !.email = "b@x", !.role = "user",
                                      !.is_active = TRUE,
                                      !.password_hash = hashpw("right", 2)]]

\* The rate limiter under a fixed limit and window.
RateInit ==
    /\ Constructed
    /\ limit \in 1..MaxLimit
    /\ window_seconds \in Windows
    /\ JWT_EXPIRES_IN_HOURS = 24
    /\ jwt_secret_set = TRUE

RateNext ==
    \/ \E id \in Identifiers, e \in 0..4 : check_rate_limit(id, e)
    \/ Tick

SpecRate == RateInit /\ [][RateNext]_vars

\* The token lifecycle and the endpoints.
Init ==
    /\ Constructed
    /\ limit = 1
    /\ window_seconds = 1
    /\ JWT_EXPIRES_IN_HOURS = 2
    /\ jwt_secret_set = TRUE

Next ==
    \/ \E k \in UserKeys, h \in HoursChoices : Issue(k, h)
    \/ MainIssue("u2")
    \/ \E tok \in Presentable, e \in BOOLEAN : Verify(tok, e)
    \/ \E tok \in Presentable : MainVerify(tok)
    \/ \E tok \in Presentable, e \in BOOLEAN : IsTokenBlacklisted(tok, e)
    \/ \E tok \in Presentable \cup {Malformed}, e \in BOOLEAN : Blacklist(tok, e)
    \/ Tick

Spec == Init /\ [][Next]_vars

\* The SecurityManager's operations beside a cache server that comes and
\* goes, within one clock value.  A command sent to a server that is down
\* raises.
BackendNext ==
    \/ \E id \in Identifiers, e \in {0, 1} :
           /\ (use_redis /\ ~cache_reachable) => e # 0
           /\ check_rate_limit(id, e)
    \/ MainIssue("u2")
    \/ \E tok \in {i.tok : i \in issued}, e \in BOOLEAN :
           /\ (use_redis /\ ~cache_reachable) => e
           /\ Blacklist(tok, e)
    \/ \E p \in Passwords, h \in {hashpw("right", 1), MalformedHash} :
           VerifyPassword(p, h)
    \/ CacheTurns

SpecBackend == Init /\ [][BackendNext]_vars

\* The two backends side by side, given the same calls.
BothNext ==
    \/ \E id \in Identifiers : check_rate_limit_both(id)
    \/ Tick

BothInit == RateInit /\ redis_client = TRUE

SpecBoth == BothInit /\ [][BothNext]_vars

\* Concurrent request handlers in check_rate_limit, under a fixed limit and
\* window.
ConcNext ==
    \/ \E h \in Handlers, id \in Identifiers : Begin(h, id)
    \/ \E h \in Handlers : Zremrangebyscore(h)
    \/ \E h \in Handlers : Zcard(h)
    \/ \E h \in Handlers : Zadd(h)
    \/ \E h \in Handlers : Expire(h)
    \/ \E h \in Handlers : Filter(h)
    \/ \E h \in Handlers : Store(h)
    \/ \E h \in Handlers : Check(h)
    \/ \E h \in Handlers : AppendTime(h)
    \/ Tick

SpecConc == RateInit /\ [][ConcNext]_vars

\* The endpoints of main, with the revocation store beside them.
ApiNext ==
    \/ \E ok \in BOOLEAN : Startup(ok)
    \/ \E m \in Emails, p \in Passwords, f \in {"", "find_one", "update_one"} :
           Login(m, p, f)
    \/ \E tok \in Presentable : VerifyToken(tok)
    \/ \E tok \in Presentable : RefreshToken(tok)
    \/ \E tok \in Presentable, e \in BOOLEAN : Blacklist(tok, e)
    \/ \E k \in UserKeys : Deactivate(k)
    \/ HealthCheck
    \/ Tick

ApiInit ==
    /\ Constructed
    /\ limit = 1
    /\ window_seconds = 1
    /\ JWT_EXPIRES_IN_HOURS \in HoursChoices
    /\ jwt_secret_set \in BOOLEAN

SpecApi == ApiInit /\ [][ApiNext]_vars

\* ============================================================ rate limiter
\* The calls of an identifier up to the k-th met no cache error.
NoErrorUpTo(id, k) == \A j \in 1..k : ~log[id][j].err

\* The calls of an identifier up to the k-th all fall in the window that the
\* first one opened.
InOneWindow(id, k) ==
    \A j \in 1..k : log[id][j].time - log[id][1].time < window_seconds

AcceptedIn(id, t) ==
    {k \in 1..Len(log[id]) :
        /\ log[id][k].ok
        /\ t - window_seconds < log[id][k].time
        /\ log[id][k].time <= t}

RecoveryCase ==
    /\ lastCall.id \in Identifiers
    /\ \E k \in 1..(Len(log[lastCall.id]) - 1) : ~log[lastCall.id][k].ok
    /\ lastCall.before # {}
    /\ lastCall.time > Min(lastCall.before) + window_seconds

\* C7: recovery of an exhausted identifier.  A call made more than
\* window_seconds after the identifier's oldest recorded request returns
\* true, once the identifier has been rejected.
C7_Recovery == RecoveryCase => lastCall.ok

\* Witness of C7: an exhausted identifier was accepted again, with no cache
\* error helping.
C7_Witness ==
    /\ RecoveryCase /\ lastCall.ok
    /\ NoErrorUpTo(lastCall.id, Len(log[lastCall.id]))

\* The state is the one the latest call left (nothing has aged since).
JustCalled == lastCall.id \in Identifiers /\ lastCall.time = now

\* The number of timestamps the latest call found recorded and younger than
\* the window: what remains after pruning.
PrunedCount ==
    IF redis_client
    THEN Cardinality({x \in lastCall.before : lastCall.time - x < window_seconds})
    ELSE Len(SelectSeq(lastCall.list, LAMBDA x : lastCall.time - x < window_seconds))

\* The number of timestamps recorded for the identifier of the latest call.
RecordedCount ==
    IF redis_client THEN Cardinality(zset[lastCall.id])
    ELSE Len(Stored(lastCall.id))

\* The latest call left recorded, of what it found, exactly the timestamps
\* younger than the window.
KeptPruned ==
    IF redis_client
    THEN zset[lastCall.id] \ {lastCall.time} =
             {x \in lastCall.before : lastCall.time - x < window_seconds}
                 \ {lastCall.time}
    ELSE \/ Stored(lastCall.id) =
               SelectSeq(lastCall.list, LAMBDA x : lastCall.time - x < window_seconds)
         \/ Stored(lastCall.id) =
               Append(SelectSeq(lastCall.list,
                                LAMBDA x : lastCall.time - x < window_seconds),
                      lastCall.time)

\* C8: a call that finds the count remaining after pruning at the limit
\* returns false and leaves exactly the pruned timestamps recorded; an accepted
\* call adds exactly one timestamp, equal to its own time.  (Stated for the
\* calls during which no cache command raised, which is the weaker statement.)
C8_RejectedRecordsNothing ==
    (JustCalled /\ lastCall.e = 0) =>
        /\ KeptPruned
        /\ PrunedCount >= limit => (~lastCall.ok /\ RecordedCount = PrunedCount)
        /\ lastCall.ok => RecordedCount = PrunedCount + 1

\* ================================================================= tokens
\* The Revocation Store holds the token.
InStore(token) == IF redis_client THEN KeyExists(token) ELSE token \in token_blacklist

\* The latest operation presented a token that SecurityManager.create_jwt_token
\* / main.create_jwt_token issued.
IssuedBy(token, who) == \E i \in issued : i.tok = token /\ i.by = who

\* C1: after blacklist_token(t) on a token t that SecurityManager issued, a
\* later SecurityManager.verify_jwt_token(t) before t's expiry fails as
\* revoked.  (Stated for the calls during which no cache command raised.)
C1_RevokedIsRejected ==
    ( /\ lastOp.op = "verify_jwt_token"
      /\ ~lastOp.err
      /\ IssuedBy(lastOp.tok, "security")
      /\ lastOp.tok \in revoked
      /\ now < lastOp.tok.payload.exp )
    => lastOp.out = "revoked"

\* C6: Expired and Revoked are absorbing.  A token that a verify has failed
\* as expired or as revoked never has a later verify return claims.
C6_Absorbing ==
    (lastOp.op = "verify_jwt_token" /\ lastOp.out = "claims")
    => lastOp.tok \notin dead

\* Witness of C6: a token that failed as revoked is verified again while the
\* cache lookup raises (the lookup answers "not revoked"), and is rejected.
C6_Witness ==
    /\ lastOp.op = "verify_jwt_token" /\ lastOp.err
    /\ lastOp.tok \in dead /\ InStore(lastOp.tok)
    /\ lastOp.out = "invalid"

\* C9: issue / verify round trip.  Before its expiry and while it is not
\* revoked, a token SecurityManager issued for user u verifies to claims that
\* carry u's id (as text), email and role.
C9_RoundTrip ==
    \A i \in issued :
        ( /\ i.by = "security"
          /\ lastOp.op = "verify_jwt_token" /\ lastOp.tok = i.tok
          /\ now < i.tok.payload.exp
          /\ ~InStore(i.tok) )
        => /\ lastOp.out = "claims"
           /\ lastOp.payload.user_id = Str(users[i.user]._id)
           /\ lastOp.payload.email = users[i.user].email
           /\ lastOp.payload.role = users[i.user].role

\* Witness of C9: a token issued at an earlier time verified to claims.
C9_Witness ==
    /\ lastOp.op = "verify_jwt_token" /\ lastOp.out = "claims"
    /\ IssuedBy(lastOp.tok, "security")
    /\ lastOp.tok.payload.iat < now
    /\ lastOp.payload.role = "admin"

\* The latest operation verified, with either implementation, an issued
\* token after its expiry, the token not being in the Revocation Store.
VerifiedAfterExpiry ==
    /\ lastOp.op \in {"verify_jwt_token", "main.verify_jwt_token"}
    /\ \E i \in issued : i.tok = lastOp.tok
    /\ now > lastOp.tok.payload.exp
    /\ ~InStore(lastOp.tok)

\* C10: a correctly signed, non-revoked token verified later than its expiry
\* fails as expired, in both verify_jwt_token implementations.
C10_ExpiredIsRejected == VerifiedAfterExpiry => lastOp.out = "expired"

\* Witness of C10: SecurityManager.verify_jwt_token met a token it had issued
\* with a positive lifetime, after its expiry.
C10_Witness ==
    /\ VerifiedAfterExpiry /\ lastOp.op = "verify_jwt_token"
    /\ IssuedBy(lastOp.tok, "security")
    /\ lastOp.tok.payload.exp > lastOp.tok.payload.iat

\* ============================================================== endpoints
\* C4: a token that is in the Revocation Store is never accepted by
\* GET /api/auth/verify-token or GET /api/auth/refresh-token.
C4_EndpointsCheckRevocation ==
    ( /\ lastOp.op \in {"verify-token", "refresh-token"}
      /\ InStore(lastOp.tok) )
    => lastOp.out # "claims"

\* The place of the first call named c in the calls a handler made, 0 if none.
FirstCall(calls, c) ==
    IF \E j \in 1..Len(calls) : calls[j] = c
    THEN Min({j \in 1..Len(calls) : calls[j] = c})
    ELSE 0

\* C5: every login that reaches the credential lookup or the password
\* comparison has made the rate-limit check before it.
C5_LoginRateLimitedFirst ==
    lastOp.op = "login" =>
        \A c \in {"find_one", "checkpw"} :
            FirstCall(lastOp.calls, c) # 0 =>
                /\ FirstCall(lastOp.calls, "check_rate_limit") # 0
                /\ FirstCall(lastOp.calls, "check_rate_limit") < FirstCall(lastOp.calls, c)

\* The store holds an active record whose id reads as the text `user_id`.
ActiveRecord(user_id) ==
    \E k \in UserKeys : users[k].is_active /\ users[k]._id.val = user_id.val

\* C11: GET /api/auth/refresh-token with a valid token whose user record is
\* missing or inactive answers HTTP 401 and issues no new token.
C11_RefreshInactiveIs401 ==
    ( /\ lastOp.op = "refresh-token"
      /\ lastOp.out = "claims"
      /\ users_collection
      /\ ~ActiveRecord(lastOp.payload.user_id) )
    => (lastOp.status = 401 /\ lastOp.token = Malformed)

\* A login that named an identity with no active record / an identity with an
\* active record and a password that is not the record's, the store
\* answering.
UnknownIdentity(r) ==
    /\ r.op = "login" /\ r.fail = "" /\ users_collection
    /\ find_one_by_email(r.email) = NoUser

WrongPassword(r) ==
    /\ r.op = "login" /\ r.fail = "" /\ users_collection
    /\ find_one_by_email(r.email) # NoUser
    /\ ~checkpw(r.password, find_one_by_email(r.email).password_hash)

\* What the client sees of a response.
Body(r) == <<r.status, r.success, r.message, r.user, r.token>>

Rejection(r) ==
    /\ r.status = 200 /\ ~r.success /\ r.message = "Invalid email or password"
    /\ r.user = Absent /\ r.token = Malformed

\* C12: no information leak on login.  A login with an unknown identity and
\* a login next to it with a known identity and a wrong password get the
\* same status and body: 200, success false, an 'Invalid ...' message, no
\* user, no token.
C12_NoLeak ==
    [][ ( \/ UnknownIdentity(lastOp) /\ WrongPassword(lastOp')
          \/ WrongPassword(lastOp) /\ UnknownIdentity(lastOp') ) =>
            /\ Body(lastOp') = Body(lastOp)
            /\ Rejection(lastOp) /\ Rejection(lastOp') ]_vars

\* Witness of C12: a login with a known identity and a wrong password was
\* answered.
C12_Witness == WrongPassword(lastOp) /\ lastOp.status = 200

\* C13: the rate limiter fails open.  On the cache backend, a
\* check_rate_limit call during which a cache command raised returns true.
C13_RateLimiterFailsOpen ==
    (lastCall.id \in Identifiers /\ redis_client /\ lastCall.e # 0)
    => lastCall.ok

\* Witness of C13: the trim or the count raised for an identifier that had
\* `limit` timestamps inside the window, and the call returned true.
C13_Witness ==
    /\ lastCall.id \in Identifiers /\ redis_client /\ lastCall.e \in {1, 2}
    /\ Cardinality({x \in lastCall.before :
                        lastCall.time - x < window_seconds}) >= limit
    /\ lastCall.ok

\* C14: the revocation lookup fails open.  An is_token_blacklisted call
\* during which the backend raised answers false, also for a token the
\* Revocation Store holds.
C14_LookupFailsOpen ==
    (lastOp.op = "is_token_blacklisted" /\ lastOp.err)
    => lastOp.out = "not blacklisted"

\* Witness of C14: the lookup raised for a token that the Revocation Store
\* holds, and answered false.
C14_Witness ==
    /\ lastOp.op = "is_token_blacklisted" /\ lastOp.err
    /\ KeyExists(lastOp.tok)
    /\ lastOp.out = "not blacklisted"

\* C15: blacklist_token never raises, whatever the input (malformed, never
\* issued, wrongly signed, expired, already revoked) and whatever the cache
\* does; for a malformed or never-issued token it leaves the Revocation Store
\* as it was.
C15_BlacklistNeverRaises ==
    [][ lastOp'.op = "blacklist_token" =>
            /\ lastOp'.out = "returned"
            /\ (~\E i \in issued : i.tok = lastOp'.tok) =>
                   UNCHANGED <<token_blacklist, blacklist_keys>> ]_vars

\* Witness of C15: blacklist_token was called with a string that is no token
\* and returned.
C15_Witness ==
    /\ lastOp.op = "blacklist_token" /\ lastOp.tok = Malformed
    /\ lastOp.out = "returned"

\* The cache holds nothing that this process wrote.
CacheUntouched ==
    /\ \A i \in Identifiers : zset[i] = {} /\ zexpire[i] = None
    /\ blacklist_keys = {}

\* The in-process fallback holds nothing.
FallbackUntouched == rate_limit_cache = <<>> /\ token_blacklist = {}

\* C16: the backend is chosen at construction and never changes.  No
\* operation changes redis_client; a SecurityManager constructed without the
\* cache never uses the cache, also once the cache answers again, and one
\* constructed with it never uses the fallback.
C16_BackendChosenOnce ==
    /\ [](~redis_client => CacheUntouched)
    /\ [](redis_client => FallbackUntouched)
    /\ [][redis_client' = redis_client]_vars

\* Witness of C16: constructed without the cache, the cache answers now, and
\* a rate-limit call and a revocation have gone to the fallback.
C16_Witness ==
    /\ ~redis_client /\ cache_reachable
    /\ lastCall.id \in Identifiers /\ lastCall.id \in DOMAIN rate_limit_cache
    /\ token_blacklist # {}
    /\ CacheUntouched

\* C17: verify_password(password, hashed) returns false and does not raise
\* when hashed is a malformed hash.
C17_VerifyPasswordMalformed ==
    (lastOp.op = "verify_password" /\ lastOp.hashed = MalformedHash)
    => lastOp.out = "False"

\* The calls logged for an identifier were made at different times.
DistinctTimes(id) ==
    \A j, k \in 1..Len(log[id]) : j # k => log[id][j].time # log[id][k].time

\* C18: on the cache backend concurrent check_rate_limit calls need no lock.
\* Under every interleaving of their cache commands, at most `limit` accepted
\* calls of an identifier lie in one window.  (Stated for calls made at
\* different times, which is the weaker statement.)
C18_CacheNeedsNoLock ==
    redis_client =>
        \A id \in Identifiers :
            DistinctTimes(id) =>
                \A t \in 0..MaxTime : Cardinality(AcceptedIn(id, t)) <= limit

\* The handlers that stand between the read of rate_limit_cache[identifier]
\* and the append to it.
InCritical(id) ==
    {h \in Handlers : handlers[h].id = id
                       /\ handlers[h].pc \in {"store", "check", "append"}}

\* Every accepted call still younger than the window is recorded.
NothingLost(id) ==
    \A k \in 1..Len(log[id]) :
        (log[id][k].ok /\ now - log[id][k].time < window_seconds) =>
            log[id][k].time \in Range(Stored(id))

\* C19: the in-process fallback is protected by mutual exclusion.  Two
\* handlers are never both between the read of rate_limit_cache[identifier]
\* and the append to it, no recorded timestamp is lost, and at most `limit`
\* calls are accepted within one window.
C19_FallbackIsLocked ==
    ~redis_client =>
        \A id \in Identifiers :
            /\ Cardinality(InCritical(id)) <= 1
            /\ NothingLost(id)
            /\ \A t \in 0..MaxTime : Cardinality(AcceptedIn(id, t)) <= limit

\* C20: the two rate-limiter backends are interchangeable.  Given the same
\* calls at non-decreasing times, several of them at one time included, and
\* no backend error, both return the same result for every call.
C20_BackendsAgree ==
    (lastCall.id \in Identifiers /\ "memory_ok" \in DOMAIN lastCall)
    => lastCall.ok = lastCall.memory_ok

\* blacklist_token's own decode accepts the token.
Decodable(token) ==
    jwt_decode(token, JWT_SECRET, now, FALSE, Absent, Absent).out = "claims"

\* What a blacklist_token call on a decodable token leaves in the Revocation
\* Store: on the cache, a key that lives until the token's expiry (none when
\* the token has expired already: a time-to-live of 0); in process, the
\* token.
EntryInserted(token) ==
    IF redis_client
    THEN IF token.payload.exp > now
         THEN [token |-> token, expire |-> token.payload.exp] \in blacklist_keys'
         ELSE ~\E k \in blacklist_keys' : k.token = token
    ELSE token \in token_blacklist'

\* Every key of the cache was stored with a time-to-live above 0: it has
\* not run out yet.
NoNegativeTtl == \A k \in blacklist_keys : k.expire > now

\* The tokens revoked with no cache error stay in the Revocation Store for
\* the whole of their remaining validity.
PresentWhileValid ==
    \A token \in revoked :
        (Decodable(token) /\ now < token.payload.exp) => InStore(token)

C22_ExpiryAfterIssuedAt ==
    \A i \in issued : i.tok.payload.exp > i.tok.payload.iat

\* The request named an active record and the password of that record.
Matched(r) ==
    /\ find_one_by_email(r.email) # NoUser
    /\ checkpw(r.password, find_one_by_email(r.email).password_hash)

\* The document store after the last-login update of the record the request
\* named.
LastLoginUpdated(r) ==
    LET k == CHOOSE k \in UserKeys : users[k] = find_one_by_email(r.email)
    IN  [users EXCEPT ![k].last_login = now, ![k].updated_at = now]

\* C23: a login response carries a token if and only if the identity matched
\* an active record and the password matched its hash; the last-login
\* timestamp is updated in exactly that case, and any other login leaves the
\* document store unchanged.  (Stated for the logins during which no
\* document-store call raises, which is the weaker statement.)
C23_LoginFrame ==
    [][ ( /\ lastOp'.op = "login" /\ users_collection
          /\ lastOp'.fail \notin {"find_one", "update_one"} ) =>
            /\ (lastOp'.token # Malformed) <=> Matched(lastOp')
            /\ IF lastOp'.token # Malformed
               THEN users' = LastLoginUpdated(lastOp')
               ELSE users' = users ]_vars

\* C24: whenever GET /health answers database_connected = true, the
\* connection was established: connect_to_mongodb's ping passed and
\* users_collection is set; after a failed connect_to_mongodb the flag is
\* false.
C24_HealthFlagMeansConnected ==
    (lastOp.op = "health" /\ lastOp.success) => users_collection

====
